---- MODULE Spec2Model ----
(***************************************************************************)
(* The OrcJIT v2 C API unit tests (OrcCAPITestBase and its TEST_F cases)   *)
(* as a state machine: the gtest runner constructs the fixture, runs one   *)
(* test body statement by statement, and destroys the fixture.  The ORC    *)
(* C API the tests call (symbol string pool, JITDylibs, materialization    *)
(* units, generators, resource trackers, lookup) is not part of the source *)
(* fragment; it is modelled from the specification and from the handle     *)
(* contract the tests rely on.                                             *)
(***************************************************************************)
EXTENDS Integers, Sequences, FiniteSets, TLC

VARIABLES
  pc,        \* position of the runner: "idle", a statement label, "crashed"
  cur,       \* the running test case, "none" between test cases
  runs,      \* number of test cases started in this process
  SupportsJIT, \* OrcExecutionTest::SupportsJIT (a property of the host)
  jitSet,    \* whether the fixture's Jit/ExecutionSession/MainDylib are set
  Jit,       \* the fixture's Jit field (a handle; indeterminate when unset)
  nextJit,   \* the next LLJIT handle the library hands out
  live,      \* the live LLJIT instances
  sess,      \* state of the execution session of the live LLJIT
  created,   \* LLJIT instances LLVMOrcCreateLLJIT produced in this test case
  disposed,  \* handles passed to LLVMOrcDisposeLLJIT in this test case
  failures,  \* ADD_FAILURE / failed assertions recorded in this test case
  msgs,      \* [got, freed]: LLVMGetErrorMessage / LLVMDisposeErrorMessage calls
  errSeen,   \* a guarded fallible call returned an error in this test case
  afterErr,  \* test body statements executed after that error
  loc,       \* the test body's local variables
  acq,       \* per name: LLVMOrcExecutionSessionIntern calls of the test body
  rel,       \* per name: LLVMOrcReleaseSymbolStringPoolEntry calls of the body
  genCalls,  \* names the definition generator callback was invoked for
  args       \* the arguments the looked-up "sum" is called with

vars == <<pc, cur, runs, SupportsJIT, jitSet, Jit, nextJit, live, sess, created,
          disposed, failures, msgs, errSeen, afterErr, loc, acq, rel, genCalls, args>>

----------------------------------------------------------------------------
\* Bounds of the model.

\* Test cases one process runs (any order, any subset, repeats allowed).
MaxRuns == 3

\* Names in one lookup set handed to the definition generator.
MaxNames == 3

----------------------------------------------------------------------------
\* Names and values.

Names == {"aaa", "bbb", "test", "sum"}

Tests == {"SymbolStringPoolUniquing", "JITDylibLookup", "MaterializationUnitCreation",
          "DefinitionGenerators", "ResourceTrackerDefinitionLifetime", "ExecutionTest"}

\* (LLVMOrcJITTargetAddress)(&materializationUnitFn): some non-null code address.
FnAddr == 77

\* Addresses the JIT may give compiled code.
CodeAddrs == {201, 202}

\* Values an uninitialised local or an unset fixture field may hold.
Indeterminate == {0, 9}

LLVMErrorSuccess == 0

\* The non-null LLVMErrorRef values.
Errors == {1}

SomeError == CHOOSE e \in Errors : TRUE

LLVMJITSymbolGenericFlagsWeak == "weak"

\* The JITDylib handles of one session: 1 is the main JITDylib.
MainHandle == 1

DylibHandles == {1, 2}

NoSym == [def |-> "none", addr |-> 0, flags |-> "none", rt |-> 0]

----------------------------------------------------------------------------
\* The execution session behind the C API (symbol string pool, JITDylibs).

\* A new LLJIT's session: an empty pool, the main JITDylib only, no symbols.
FreshSession ==
  [pool      |-> [n \in Names |-> [addr |-> 0, rc |-> 0]],
   nextEntry |-> 11,
   dylibs    |-> [n \in {"main", "test"} |-> IF n = "main" THEN MainHandle ELSE 0],
   nextDylib |-> 2,
   syms      |-> [h \in DylibHandles |-> [n \in Names |-> NoSym]],
   gens      |-> [h \in DylibHandles |-> FALSE],
   nextRT    |-> 1]

\* SymbolStringPool::intern: the entry of a name already in the pool, else a new one.
PoolIntern(s, n) ==
  IF s.pool[n].addr # 0
    THEN [s EXCEPT !.pool[n].rc = @ + 1]
    ELSE [s EXCEPT !.pool[n] = [addr |-> s.nextEntry, rc |-> 1],
                   !.nextEntry = @ + 1]

\* LLVMOrcExecutionSessionIntern: [ret |-> the entry, s |-> the session after].
Intern(s, n) ==
  LET t == PoolIntern(s, n) IN [ret |-> t.pool[n].addr, s |-> t]

\* The name an entry stands for (LLVMOrcSymbolStringPoolEntryStr); "" for no entry.
EntryStr(s, e) ==
  IF \E n \in Names : s.pool[n].addr = e /\ e # 0
    THEN CHOOSE n \in Names : s.pool[n].addr = e
    ELSE ""

\* LLVMOrcReleaseSymbolStringPoolEntry: one reference less.
Release(s, e) ==
  LET n == EntryStr(s, e) IN
  IF n = "" THEN s ELSE [s EXCEPT !.pool[n].rc = @ - 1]

\* LLVMOrcExecutionSessionGetJITDylibByName: the handle, null when there is none.
GetJITDylibByName(s, name) == s.dylibs[name]

\* LLVMOrcExecutionSessionCreateBareJITDylib.
CreateBareJITDylib(s, name) ==
  [ret |-> s.nextDylib,
   s   |-> [s EXCEPT !.dylibs[name] = s.nextDylib, !.nextDylib = @ + 1]]

\* LLVMOrcAbsoluteSymbols + LLVMOrcJITDylibDefine of one pair {Name, {Addr, Flags}}:
\* the unit keeps a reference of its own to the name; a duplicate definition is
\* refused and changes nothing.
DefineAbsolute(s, jd, e, addr, flags) ==
  LET n == EntryStr(s, e) IN
  IF n = "" \/ s.syms[jd][n].def # "none"
    THEN s
    ELSE [PoolIntern(s, n) EXCEPT
            !.syms[jd][n] = [def |-> "abs", addr |-> addr, flags |-> flags, rt |-> 0]]

\* The generator's loop stops one name early (I < NamesCount - 1).
definitionGeneratorFn_OffByOne(s, JD, LookupSet, I) ==
  IF I >= Len(LookupSet)
    THEN s
    ELSE DefineAbsolute(s, JD, LookupSet[I], FnAddr, LLVMJITSymbolGenericFlagsWeak)

\* The generator defines into the main JITDylib instead of the JD it was given.
RECURSIVE definitionGeneratorFn_IntoMain(_, _, _, _)
definitionGeneratorFn_IntoMain(s, JD, LookupSet, I) ==
  IF I > Len(LookupSet)
    THEN s
    ELSE definitionGeneratorFn_IntoMain(
           DefineAbsolute(s, MainHandle, LookupSet[I], FnAddr,
                          LLVMJITSymbolGenericFlagsWeak),
           JD, LookupSet, I + 1)

\* definitionGeneratorFn: every name of the lookup set is defined into JD as an
\* absolute symbol at the address of materializationUnitFn, weak, one unit per name.
RECURSIVE definitionGeneratorFn(_, _, _, _)
definitionGeneratorFn(s, JD, LookupSet, I) ==
  IF I > Len(LookupSet)
    THEN s
    ELSE definitionGeneratorFn(
           DefineAbsolute(s, JD, LookupSet[I], FnAddr, LLVMJITSymbolGenericFlagsWeak),
           JD, LookupSet, I + 1)

\* LLVMOrcJITDylibAddGenerator(JD, Gen) with Gen made from definitionGeneratorFn.
AddGenerator(s, jd) == [s EXCEPT !.gens[jd] = TRUE]

\* LLVMOrcJITDylibCreateResourceTracker.
CreateResourceTracker(s) == [ret |-> s.nextRT, s |-> [s EXCEPT !.nextRT = @ + 1]]

\* LLVMOrcLLJITAddLLVMIRModule(WithRT) of the module createTestModule built: its
\* function "sum" becomes a symbol of the main JITDylib under tracker rt (0: the
\* default tracker).  Loading interns the name twice: one reference for the
\* symbol table, one that nothing releases.
AddLLVMIRModule(s, rt, codeAddr) ==
  [PoolIntern(PoolIntern(s, "sum"), "sum") EXCEPT
     !.syms[MainHandle]["sum"] =
        [def |-> "mod", addr |-> codeAddr, flags |-> "exported", rt |-> rt]]

\* A symbol leaves its JITDylib: the table's reference to the name goes with it.
DropSymbol(s, jd, n) ==
  [s EXCEPT !.syms[jd][n] = NoSym, !.pool[n].rc = @ - 1]

\* LLVMOrcResourceTrackerRemove: every symbol loaded under rt leaves its JITDylib.
RECURSIVE RemoveTracked(_, _, _)
RemoveTracked(s, rt, todo) ==
  IF todo = {}
    THEN s
    ELSE LET x == CHOOSE y \in todo : TRUE IN
         RemoveTracked(
           IF s.syms[x[1]][x[2]].def = "mod" /\ s.syms[x[1]][x[2]].rt = rt
             THEN DropSymbol(s, x[1], x[2]) ELSE s,
           rt, todo \ {x})

ResourceTrackerRemove(s, rt) == RemoveTracked(s, rt, DylibHandles \X Names)

\* The main JITDylib after its generators were asked for a name it does not define.
Generated(s, n) ==
  IF s.syms[MainHandle][n].def = "none" /\ s.gens[MainHandle] /\ s.pool[n].addr # 0
    THEN definitionGeneratorFn(s, MainHandle, <<s.pool[n].addr>>, 1)
    ELSE s

\* LLVMOrcLLJITLookup(J, &Result, Name) in the main JITDylib.  The name is interned
\* for the search and released after it; an undefined name goes to the generators;
\* a module's symbol is compiled on first lookup, which may fail (matFails) and then
\* removes the symbol.  [err, addr, s, asked]: on an error the result is 0.
LLJITLookup(s, n, matFails) ==
  LET s1 == PoolIntern(s, n)
      asked == s1.syms[MainHandle][n].def = "none" /\ s1.gens[MainHandle]
      s2 == Generated(s1, n)
      sym == s2.syms[MainHandle][n]
      fin(t) == [t EXCEPT !.pool[n].rc = @ - 1] IN
  IF sym.def = "none"
    THEN [err |-> SomeError, addr |-> 0, s |-> fin(s2), asked |-> asked]
  ELSE IF sym.def = "mod" /\ matFails
    THEN [err |-> SomeError, addr |-> 0, s |-> fin(DropSymbol(s2, MainHandle, n)),
          asked |-> asked]
  ELSE [err |-> LLVMErrorSuccess, addr |-> sym.addr, s |-> fin(s2), asked |-> asked]

----------------------------------------------------------------------------
\* The compiled test module.

MaxInt32 == 2147483647

MinInt32 == -2147483647 - 1

\* Whether a + b fits 32 bits.
Fits32(a, b) ==
  IF b >= 0 THEN a <= MaxInt32 - b ELSE a >= MinInt32 - b

\* LLVMBuildAdd on Int32Ty: two's-complement addition, wrapping modulo 2^32.
Add32(a, b) ==
  IF Fits32(a, b) THEN a + b
  ELSE IF b >= 0 THEN ((a - MaxInt32) - 1) + ((b - MaxInt32) - 1)
  ELSE ((a + MaxInt32) + 1) + ((b + MaxInt32) + 1)

\* The add takes the first parameter twice.
SumFn_SameArg(Arg1, Arg2) == Add32(Arg1, Arg1)

\* The function "sum" createTestModule builds: ret (add Arg1, Arg2).
SumFn(Arg1, Arg2) == Add32(Arg1, Arg2)

----------------------------------------------------------------------------
\* The gtest runner and the fixture.

\* The locals of a test body before their declarations are reached.
NoLocals ==
  [E1 |-> 0, E2 |-> 0, E3 |-> 0, SymbolName |-> "", DoesNotExist |-> 0, L1 |-> 0,
   L2 |-> 0, Name |-> 0, Addr |-> 0, OutAddr |-> 0, TestFnAddr |-> 0, RT |-> 0,
   E |-> 0, Result |-> 0, moduleAdded |-> FALSE, lookedUp |-> FALSE,
   removed |-> FALSE, lookedUpAfter |-> FALSE, OutAddrBefore |-> 0,
   JD |-> 0, LookupSet |-> <<>>, genCalled |-> FALSE, genRet |-> 0]

InitBase ==
  /\ pc = "idle" /\ cur = "none" /\ runs = 0
  /\ SupportsJIT \in BOOLEAN
  /\ jitSet = FALSE /\ Jit = 0 /\ nextJit = 1 /\ live = {}
  /\ sess = FreshSession
  /\ created = 0 /\ disposed = <<>> /\ failures = 0
  /\ msgs = [got |-> 0, freed |-> 0]
  /\ errSeen = FALSE /\ afterErr = 0
  /\ loc = NoLocals
  /\ acq = [n \in Names |-> 0] /\ rel = [n \in Names |-> 0]
  /\ genCalls = {}

\* int32_t Result = SumFn(1, 1): the arguments of the test's only call.
Init == InitBase /\ args = <<1, 1>>

\* The fixture's handles are set and name a live LLJIT.
Valid == jitSet /\ Jit \in live

\* What the use of an unset handle may do: end the process (-1), or go on with
\* an indeterminate result.
Crash == -1

UBOutcomes == {Crash} \cup Indeterminate

\* gtest picks a test case: any order, any subset, possibly again.
RunTest(t) ==
  /\ pc \in {"idle", "done"} /\ runs < MaxRuns
  /\ cur' = t /\ pc' = "ctor" /\ runs' = runs + 1
  /\ jitSet' = FALSE
  /\ \E g \in Indeterminate \cup (1 .. (nextJit - 1)) : Jit' = g
  /\ created' = 0 /\ disposed' = <<>> /\ failures' = 0
  /\ msgs' = [got |-> 0, freed |-> 0]
  /\ errSeen' = FALSE /\ afterErr' = 0
  /\ loc' = NoLocals
  /\ acq' = [n \in Names |-> 0] /\ rel' = [n \in Names |-> 0]
  /\ genCalls' = {}
  /\ UNCHANGED <<SupportsJIT, nextJit, live, sess, args>>

\* OrcCAPITestBase::reportError: the message is extracted, one failure recorded,
\* the message disposed.
reportError ==
  /\ failures' = failures + 1
  /\ msgs' = [got |-> msgs.got + 1, freed |-> msgs.freed + 1]
  /\ errSeen' = TRUE

\* The first test body statement of each test case.
Entry(t) ==
  CASE t = "SymbolStringPoolUniquing" -> "sspu1"
    [] t = "JITDylibLookup" -> "jdl1"
    [] t = "MaterializationUnitCreation" -> "muc1"
    [] t = "DefinitionGenerators" -> "dg1"
    [] t = "ResourceTrackerDefinitionLifetime" -> "rt1"
    [] t = "ExecutionTest" -> "ex1"

\* OrcCAPITestBase(): LLVMOrcCreateLLJIT, which may fail; the error is reported and
\* the constructor returns with Jit, ExecutionSession and MainDylib unset.  Either
\* way gtest goes on to the test body: the failure recorded is not a fatal one.
Construct ==
  /\ pc = "ctor"
  /\ \E createFails \in BOOLEAN :
       IF createFails
         THEN /\ reportError
              /\ UNCHANGED <<jitSet, Jit, nextJit, live, sess, created>>
         ELSE /\ Jit' = nextJit /\ nextJit' = nextJit + 1 /\ jitSet' = TRUE
              /\ live' = live \cup {nextJit} /\ sess' = FreshSession
              /\ created' = created + 1
              /\ UNCHANGED <<failures, msgs, errSeen>>
  /\ pc' = Entry(cur)
  /\ UNCHANGED <<cur, runs, SupportsJIT, disposed, afterErr, loc, acq, rel, genCalls, args>>

\* ~OrcCAPITestBase(): LLVMOrcDisposeLLJIT(Jit), whatever Jit holds.
Destruct ==
  /\ pc = "dtor"
  /\ disposed' = Append(disposed, Jit)
  /\ IF Valid
       THEN live' = live \ {Jit} /\ pc' = "done"
       ELSE live' = live /\ \E o \in {Crash, 0} : pc' = IF o = Crash THEN "crashed" ELSE "done"
  /\ UNCHANGED <<cur, runs, SupportsJIT, jitSet, Jit, nextJit, sess, created, failures,
                 msgs, errSeen, afterErr, loc, acq, rel, genCalls, args>>

\* One more test body statement runs.
Tick == afterErr' = IF errSeen THEN afterErr + 1 ELSE afterErr

\* What no test body statement changes.
Fixture ==
  <<cur, runs, SupportsJIT, jitSet, Jit, nextJit, live, created, disposed, args>>

\* X = LLVMOrcExecutionSessionIntern(ExecutionSession, n).
InternStep(p, next, field, n) ==
  /\ pc = p /\ Tick
  /\ acq' = [acq EXCEPT ![n] = @ + 1]
  /\ IF Valid
       THEN LET r == Intern(sess, n) IN
            sess' = r.s /\ loc' = [loc EXCEPT ![field] = r.ret] /\ pc' = next
       ELSE /\ sess' = sess
            /\ \E o \in UBOutcomes :
                 IF o = Crash THEN pc' = "crashed" /\ loc' = loc
                 ELSE pc' = next /\ loc' = [loc EXCEPT ![field] = o]
  /\ UNCHANGED <<Fixture, failures, msgs, errSeen, rel, genCalls>>

\* LLVMOrcReleaseSymbolStringPoolEntry(X), X an entry of name n.
ReleaseStep(p, next, field, n) ==
  /\ pc = p /\ Tick
  /\ rel' = [rel EXCEPT ![n] = @ + 1]
  /\ IF Valid
       THEN sess' = Release(sess, loc[field]) /\ pc' = next
       ELSE sess' = sess /\ \E o \in {Crash, 0} : pc' = IF o = Crash THEN "crashed" ELSE next
  /\ UNCHANGED <<Fixture, failures, msgs, errSeen, loc, acq, genCalls>>

\* ASSERT_*: a failed fatal assertion records a failure and leaves the test body.
AssertStep(p, next, cond) ==
  /\ pc = p /\ Tick
  /\ IF cond THEN pc' = next /\ failures' = failures
             ELSE pc' = "dtor" /\ failures' = failures + 1
  /\ UNCHANGED <<Fixture, sess, msgs, errSeen, loc, acq, rel, genCalls, args>>

----------------------------------------------------------------------------
\* TEST_F(OrcCAPITestBase, SymbolStringPoolUniquing)

SSPU_E1 == InternStep("sspu1", "sspu2", "E1", "aaa")

SSPU_E2 == InternStep("sspu2", "sspu3", "E2", "aaa")

\* The third intern repeats the first name.
SSPU_E3_SameName == InternStep("sspu3", "sspu4", "E3", "aaa")

SSPU_E3 == InternStep("sspu3", "sspu4", "E3", "bbb")

\* The string is taken of E3 instead of E1.
SSPU_Str_WrongEntry ==
  /\ pc = "sspu4" /\ Tick
  /\ IF Valid
       THEN loc' = [loc EXCEPT !.SymbolName = EntryStr(sess, loc.E3)] /\ pc' = "sspu5"
       ELSE \E o \in {"crash", "", "aaa"} :
              IF o = "crash" THEN pc' = "crashed" /\ loc' = loc
              ELSE pc' = "sspu5" /\ loc' = [loc EXCEPT !.SymbolName = o]
  /\ UNCHANGED <<Fixture, sess, failures, msgs, errSeen, acq, rel, genCalls>>

\* const char *SymbolName = LLVMOrcSymbolStringPoolEntryStr(E1).
SSPU_Str ==
  /\ pc = "sspu4" /\ Tick
  /\ IF Valid
       THEN loc' = [loc EXCEPT !.SymbolName = EntryStr(sess, loc.E1)] /\ pc' = "sspu5"
       ELSE \E o \in {"crash", "", "aaa"} :
              IF o = "crash" THEN pc' = "crashed" /\ loc' = loc
              ELSE pc' = "sspu5" /\ loc' = [loc EXCEPT !.SymbolName = o]
  /\ UNCHANGED <<Fixture, sess, failures, msgs, errSeen, acq, rel, genCalls, args>>

SSPU_AssertEq == AssertStep("sspu5", "sspu6", loc.E1 = loc.E2)

SSPU_AssertNe == AssertStep("sspu6", "sspu7", loc.E1 # loc.E3)

SSPU_AssertStr == AssertStep("sspu7", "sspu8", loc.SymbolName = "aaa")

SSPU_Rel1 == ReleaseStep("sspu8", "sspu9", "E1", "aaa")

SSPU_Rel2 == ReleaseStep("sspu9", "sspu10", "E2", "aaa")

SSPU_Rel3 == ReleaseStep("sspu10", "dtor", "E3", "bbb")

SymbolStringPoolUniquing ==
  \/ SSPU_E1 \/ SSPU_E2 \/ SSPU_E3 \/ SSPU_Str \/ SSPU_AssertEq \/ SSPU_AssertNe
  \/ SSPU_AssertStr \/ SSPU_Rel1 \/ SSPU_Rel2 \/ SSPU_Rel3


----------------------------------------------------------------------------
\* Statements several test bodies share.

\* if (LLVMErrorRef E = LLVMOrcLLJITLookup(Jit, &X, n)) { reportError(E, ...); return; }
LookupGuard(p, next, field, n) ==
  /\ pc = p /\ Tick
  /\ IF Valid
       THEN \E matFails \in BOOLEAN :
              LET r == LLJITLookup(sess, n, matFails) IN
              /\ sess' = r.s
              /\ genCalls' = IF r.asked THEN genCalls \cup {n} ELSE genCalls
              /\ loc' = [loc EXCEPT ![field] = r.addr, !.lookedUp = TRUE]
              /\ IF r.err # LLVMErrorSuccess
                   THEN reportError /\ pc' = "dtor"
                   ELSE pc' = next /\ UNCHANGED <<failures, msgs, errSeen>>
       ELSE /\ UNCHANGED <<sess, genCalls>>
            /\ \E o \in UBOutcomes, e \in {LLVMErrorSuccess} \cup Errors :
                 IF o = Crash
                   THEN pc' = "crashed" /\ UNCHANGED <<loc, failures, msgs, errSeen>>
                   ELSE /\ loc' = [loc EXCEPT ![field] = o]
                        /\ IF e # LLVMErrorSuccess
                             THEN reportError /\ pc' = "dtor"
                             ELSE pc' = next /\ UNCHANGED <<failures, msgs, errSeen>>
  /\ UNCHANGED <<Fixture, acq, rel>>

\* TSM = createTestModule();
\* if (LLVMErrorRef E = LLVMOrcLLJITAddLLVMIRModule[WithRT](Jit, ..., TSM)) { ...; return; }
AddModuleGuard(p, next, rt) ==
  /\ pc = p /\ Tick
  /\ IF Valid
       THEN \E addFails \in BOOLEAN, a \in CodeAddrs :
              IF addFails
                THEN reportError /\ pc' = "dtor" /\ UNCHANGED <<sess, loc>>
                ELSE /\ sess' = AddLLVMIRModule(sess, rt, a)
                     /\ loc' = [loc EXCEPT !.moduleAdded = TRUE]
                     /\ pc' = next /\ UNCHANGED <<failures, msgs, errSeen>>
       ELSE /\ UNCHANGED <<sess, loc>>
            /\ \E o \in {Crash, LLVMErrorSuccess} \cup Errors :
                 IF o = Crash THEN pc' = "crashed" /\ UNCHANGED <<failures, msgs, errSeen>>
                 ELSE IF o # LLVMErrorSuccess THEN reportError /\ pc' = "dtor"
                 ELSE pc' = next /\ UNCHANGED <<failures, msgs, errSeen>>
  /\ UNCHANGED <<Fixture, acq, rel, genCalls, args>>

\* A call that takes a fixture handle and returns a handle into a local.
HandleStep(p, next, field, r) ==
  /\ pc = p /\ Tick
  /\ IF Valid
       THEN sess' = r.s /\ loc' = [loc EXCEPT ![field] = r.ret] /\ pc' = next
       ELSE /\ sess' = sess
            /\ \E o \in UBOutcomes :
                 IF o = Crash THEN pc' = "crashed" /\ loc' = loc
                 ELSE pc' = next /\ loc' = [loc EXCEPT ![field] = o]
  /\ UNCHANGED <<Fixture, failures, msgs, errSeen, acq, rel, genCalls, args>>

\* A call that takes a fixture handle and returns nothing the body keeps.
VoidStep(p, next, s, l) ==
  /\ pc = p /\ Tick
  /\ IF Valid
       THEN sess' = s /\ loc' = l /\ pc' = next
       ELSE /\ sess' = sess /\ loc' = loc
            /\ \E o \in {Crash, 0} : pc' = IF o = Crash THEN "crashed" ELSE next
  /\ UNCHANGED <<Fixture, failures, msgs, errSeen, acq, rel, genCalls, args>>

----------------------------------------------------------------------------
\* TEST_F(OrcCAPITestBase, JITDylibLookup)

JDL_DoesNotExist ==
  HandleStep("jdl1", "jdl2", "DoesNotExist",
             [ret |-> GetJITDylibByName(sess, "test"), s |-> sess])

JDL_AssertNull == AssertStep("jdl2", "jdl3", loc.DoesNotExist = 0)

JDL_L1 == HandleStep("jdl3", "jdl4", "L1", CreateBareJITDylib(sess, "test"))

\* The second lookup asks for another JITDylib's name.
JDL_L2_WrongName ==
  HandleStep("jdl4", "jdl5", "L2", [ret |-> GetJITDylibByName(sess, "main"), s |-> sess])

JDL_L2 ==
  HandleStep("jdl4", "jdl5", "L2", [ret |-> GetJITDylibByName(sess, "test"), s |-> sess])

JDL_AssertEq == AssertStep("jdl5", "dtor", loc.L1 = loc.L2)

JITDylibLookup ==
  \/ JDL_DoesNotExist \/ JDL_AssertNull \/ JDL_L1 \/ JDL_L2 \/ JDL_AssertEq

----------------------------------------------------------------------------
\* TEST_F(OrcCAPITestBase, MaterializationUnitCreation)

MUC_Name == InternStep("muc1", "muc2", "Name", "test")

\* The unit is defined into a JITDylib that is not the main one.
MUC_Define_OtherDylib ==
  \E u \in Indeterminate :
    VoidStep("muc2", "muc3",
             DefineAbsolute(sess, 2, loc.Name, FnAddr, LLVMJITSymbolGenericFlagsWeak),
             [loc EXCEPT !.Addr = FnAddr, !.OutAddr = u])

\* Addr = &materializationUnitFn; MU = LLVMOrcAbsoluteSymbols({Name, {Addr, Weak}}, 1);
\* LLVMOrcJITDylibDefine(MainDylib, MU); LLVMOrcJITTargetAddress OutAddr;
MUC_Define ==
  \E u \in Indeterminate :
    VoidStep("muc2", "muc3",
             DefineAbsolute(sess, MainHandle, loc.Name, FnAddr,
                            LLVMJITSymbolGenericFlagsWeak),
             [loc EXCEPT !.Addr = FnAddr, !.OutAddr = u])

MUC_Lookup == LookupGuard("muc3", "muc4", "OutAddr", "test")

MUC_AssertEq == AssertStep("muc4", "muc5", loc.Addr = loc.OutAddr)

MUC_Release == ReleaseStep("muc5", "dtor", "Name", "test")

MaterializationUnitCreation ==
  \/ MUC_Name \/ MUC_Define \/ MUC_Lookup \/ MUC_AssertEq \/ MUC_Release

----------------------------------------------------------------------------
\* TEST_F(OrcCAPITestBase, DefinitionGenerators)

\* Gen = LLVMOrcCreateCustomCAPIDefinitionGenerator(&definitionGeneratorFn, nullptr);
\* LLVMOrcJITDylibAddGenerator(MainDylib, Gen); LLVMOrcJITTargetAddress OutAddr;
DG_AddGenerator ==
  \E u \in Indeterminate :
    VoidStep("dg1", "dg2", AddGenerator(sess, MainHandle), [loc EXCEPT !.OutAddr = u])

DG_Lookup == LookupGuard("dg2", "dg3", "OutAddr", "test")

DG_AssertEq == AssertStep("dg3", "dtor", FnAddr = loc.OutAddr)

DefinitionGenerators == DG_AddGenerator \/ DG_Lookup \/ DG_AssertEq


----------------------------------------------------------------------------
\* TEST_F(OrcCAPITestBase, ResourceTrackerDefinitionLifetime)

RT_Create == HandleStep("rt1", "rt2", "RT", CreateResourceTracker(sess))

\* The module is added without the tracker (LLVMOrcLLJITAddLLVMIRModule).
RT_AddModule_NoRT == AddModuleGuard("rt2", "rt3", 0)

RT_AddModule == AddModuleGuard("rt2", "rt3", loc.RT)

RT_Lookup == LookupGuard("rt3", "rt4", "TestFnAddr", "sum")

RT_AssertAddr == AssertStep("rt4", "rt5", loc.TestFnAddr # 0)

\* LLVMOrcResourceTrackerRemove(RT); LLVMOrcJITTargetAddress OutAddr;
RT_Remove ==
  \E u \in Indeterminate :
    VoidStep("rt5", "rt6", ResourceTrackerRemove(sess, loc.RT),
             [loc EXCEPT !.OutAddr = u, !.removed = TRUE])

\* The lookup after the removal is given &TestFnAddr, and OutAddr stays as declared.
RT_LookupAfter_WrongOut ==
  /\ pc = "rt6" /\ Tick
  /\ IF Valid
       THEN \E matFails \in BOOLEAN :
              LET r == LLJITLookup(sess, "sum", matFails) IN
              /\ sess' = r.s
              /\ genCalls' = IF r.asked THEN genCalls \cup {"sum"} ELSE genCalls
              /\ loc' = [loc EXCEPT !.TestFnAddr = r.addr, !.E = r.err,
                                    !.lookedUpAfter = TRUE,
                                    !.OutAddrBefore = loc.OutAddr]
              /\ pc' = "rt7"
       ELSE /\ UNCHANGED <<sess, genCalls>>
            /\ \E o \in UBOutcomes, e \in {LLVMErrorSuccess} \cup Errors :
                 IF o = Crash THEN pc' = "crashed" /\ loc' = loc
                 ELSE pc' = "rt7" /\ loc' = [loc EXCEPT !.TestFnAddr = o, !.E = e]
  /\ UNCHANGED <<Fixture, failures, msgs, errSeen, acq, rel>>

\* LLVMErrorRef E = LLVMOrcLLJITLookup(Jit, &OutAddr, "sum"); the error is expected
\* and neither reported nor disposed.
RT_LookupAfter ==
  /\ pc = "rt6" /\ Tick
  /\ IF Valid
       THEN \E matFails \in BOOLEAN :
              LET r == LLJITLookup(sess, "sum", matFails) IN
              /\ sess' = r.s
              /\ genCalls' = IF r.asked THEN genCalls \cup {"sum"} ELSE genCalls
              /\ loc' = [loc EXCEPT !.OutAddr = r.addr, !.E = r.err,
                                    !.lookedUpAfter = TRUE,
                                    !.OutAddrBefore = loc.OutAddr]
              /\ pc' = "rt7"
       ELSE /\ UNCHANGED <<sess, genCalls>>
            /\ \E o \in UBOutcomes, e \in {LLVMErrorSuccess} \cup Errors :
                 IF o = Crash THEN pc' = "crashed" /\ loc' = loc
                 ELSE pc' = "rt7" /\ loc' = [loc EXCEPT !.OutAddr = o, !.E = e]
  /\ UNCHANGED <<Fixture, failures, msgs, errSeen, acq, rel>>

RT_AssertErr == AssertStep("rt7", "rt8", loc.E # LLVMErrorSuccess)

RT_AssertZero == AssertStep("rt8", "rt9", loc.OutAddr = 0)

\* ES = LLVMOrcLLJITGetExecutionSession(Jit); Name = LLVMOrcExecutionSessionIntern(ES, "sum");
RT_Name == InternStep("rt9", "rt10", "Name", "sum")

RT_Release1 == ReleaseStep("rt10", "rt11", "Name", "sum")

RT_Release2 == ReleaseStep("rt11", "dtor", "Name", "sum")

ResourceTrackerDefinitionLifetime ==
  \/ RT_Create \/ RT_AddModule \/ RT_Lookup \/ RT_AssertAddr \/ RT_Remove
  \/ RT_LookupAfter \/ RT_AssertErr \/ RT_AssertZero \/ RT_Name \/ RT_Release1
  \/ RT_Release2

----------------------------------------------------------------------------
\* TEST_F(OrcCAPITestBase, ExecutionTest)

\* if (!SupportsJIT) return; LLVMInitializeNativeAsmPrinter();
EX_Supports ==
  /\ pc = "ex1" /\ Tick
  /\ pc' = IF SupportsJIT THEN "ex2" ELSE "dtor"
  /\ UNCHANGED <<Fixture, sess, failures, msgs, errSeen, loc, acq, rel, genCalls, args>>

EX_AddModule == AddModuleGuard("ex2", "ex3", 0)

EX_Lookup == LookupGuard("ex3", "ex4", "TestFnAddr", "sum")

\* The code a looked-up address runs: "sum" where the module's code was put.
CodeAt(s, addr, a, b) ==
  IF s.syms[MainHandle]["sum"].def = "mod" /\ s.syms[MainHandle]["sum"].addr = addr
    THEN SumFn(a, b) ELSE Crash

\* auto *SumFn = (SumFunctionType)(TestFnAddr); int32_t Result = SumFn(1, 1);
EX_Call ==
  /\ pc = "ex4" /\ Tick
  /\ IF Valid
       THEN /\ loc' = [loc EXCEPT !.Result = CodeAt(sess, loc.TestFnAddr, args[1], args[2])]
            /\ pc' = "ex5"
       ELSE \E o \in UBOutcomes \cup {2} :
              IF o = Crash THEN pc' = "crashed" /\ loc' = loc
              ELSE pc' = "ex5" /\ loc' = [loc EXCEPT !.Result = o]
  /\ UNCHANGED <<Fixture, sess, failures, msgs, errSeen, acq, rel, genCalls, args>>

EX_AssertEq == AssertStep("ex5", "dtor", 2 = loc.Result)

ExecutionTest == EX_Supports \/ EX_AddModule \/ EX_Lookup \/ EX_Call \/ EX_AssertEq

----------------------------------------------------------------------------
Next ==
  \/ \E t \in Tests : RunTest(t)
  \/ Construct
  \/ SymbolStringPoolUniquing
  \/ JITDylibLookup
  \/ MaterializationUnitCreation
  \/ DefinitionGenerators
  \/ ResourceTrackerDefinitionLifetime
  \/ ExecutionTest
  \/ Destruct

Spec == Init /\ [][Next]_vars

----------------------------------------------------------------------------
\* The compiled "sum" over the 32-bit integers: ExecutionTest alone, with the
\* arguments of the call drawn from the ends and the middle of int32_t.

Int32Samples ==
  {MinInt32, MinInt32 + 1, -1000, -2, -1, 0, 1, 2, 1000, MaxInt32 - 1, MaxInt32}

SumInit == InitBase /\ args \in Int32Samples \X Int32Samples

SumNext ==
  \/ RunTest("ExecutionTest")
  \/ Construct
  \/ ExecutionTest
  \/ Destruct

SumSpec == SumInit /\ [][SumNext]_vars

----------------------------------------------------------------------------
\* The definition generator callback over lookup sets of several names and
\* either JITDylib: a live session with a second JITDylib, the names of the
\* lookup set interned by the lookup that asks the generator.

\* The lookup sets: up to MaxNames names, no name twice.
LookupNames ==
  {q \in UNION {[1 .. k -> Names] : k \in 0 .. MaxNames} :
     \A i, j \in DOMAIN q : q[i] = q[j] => i = j}

RECURSIVE InternAll(_, _, _)
InternAll(s, q, i) ==
  IF i > Len(q) THEN s ELSE InternAll(PoolIntern(s, q[i]), q, i + 1)

GenInit ==
  /\ pc = "gen" /\ cur = "DefinitionGenerators" /\ runs = 1
  /\ SupportsJIT \in {TRUE}
  /\ jitSet = TRUE /\ Jit = 1 /\ nextJit = 2 /\ live = {1}
  /\ created = 1 /\ disposed = <<>> /\ failures = 0
  /\ msgs = [got |-> 0, freed |-> 0]
  /\ errSeen = FALSE /\ afterErr = 0
  /\ acq = [n \in Names |-> 0] /\ rel = [n \in Names |-> 0]
  /\ genCalls = {} /\ args = <<1, 1>>
  /\ \E q \in LookupNames, jd \in DylibHandles :
       LET s0 == CreateBareJITDylib(FreshSession, "test").s
           s1 == InternAll(AddGenerator(s0, jd), q, 1) IN
       /\ sess = s1
       /\ loc = [NoLocals EXCEPT !.JD = jd,
                                 !.LookupSet = [i \in DOMAIN q |-> s1.pool[q[i]].addr]]

\* The library calls definitionGeneratorFn(G, Ctx, LS, K, JD, F, Names, NamesCount),
\* which returns LLVMErrorSuccess.
GenCall ==
  /\ pc = "gen"
  /\ sess' = definitionGeneratorFn(sess, loc.JD, loc.LookupSet, 1)
  /\ loc' = [loc EXCEPT !.genCalled = TRUE, !.genRet = LLVMErrorSuccess]
  /\ pc' = "genDone"
  /\ UNCHANGED <<Fixture, failures, msgs, errSeen, afterErr, acq, rel, genCalls>>

GenNext == GenCall

GenSpec == GenInit /\ [][GenNext]_vars

----------------------------------------------------------------------------
\* Properties.

\* C1: within one execution session two interned names have the same pool entry
\* exactly when they are the same name: in SymbolStringPoolUniquing E1 = E2 (both
\* "aaa") and E1 # E3 ("aaa" against "bbb") while the entries are held.
C1_InternUniquing ==
  Valid =>
    /\ \A a, b \in Names :
         (sess.pool[a].addr # 0 /\ sess.pool[b].addr # 0)
           => ((sess.pool[a].addr = sess.pool[b].addr) <=> (a = b))
    /\ (cur = "SymbolStringPoolUniquing"
          /\ pc \in {"sspu4", "sspu5", "sspu6", "sspu7", "sspu8"})
         => /\ loc.E1 # 0 /\ loc.E1 = loc.E2 /\ loc.E1 # loc.E3
            /\ loc.E1 = sess.pool["aaa"].addr /\ loc.E3 = sess.pool["bbb"].addr

C1_Witness ==
  /\ Valid /\ cur = "SymbolStringPoolUniquing" /\ pc = "sspu5"
  /\ loc.E1 = loc.E2 /\ loc.E1 # loc.E3
  /\ sess.pool["aaa"].rc = 2 /\ sess.pool["bbb"].rc = 1

\* C2: in a fresh session no JITDylib is found under a name none was created with;
\* once LLVMOrcExecutionSessionCreateBareJITDylib(name) returned L1, looking the
\* name up returns exactly L1.
C2_JITDylibByName ==
  Valid =>
    /\ (cur # "JITDylibLookup" \/ pc \in {"jdl1", "jdl2", "jdl3"})
         => GetJITDylibByName(sess, "test") = 0
    /\ (cur = "JITDylibLookup" /\ pc \in {"jdl2", "jdl3", "jdl4", "jdl5"})
         => loc.DoesNotExist = 0
    /\ (cur = "JITDylibLookup" /\ pc \in {"jdl4", "jdl5", "dtor"})
         => loc.L1 # 0 /\ GetJITDylibByName(sess, "test") = loc.L1
    /\ (cur = "JITDylibLookup" /\ pc \in {"jdl5", "dtor"}) => loc.L2 = loc.L1
    /\ (cur = "JITDylibLookup" /\ pc = "dtor") => failures = 0

C2_Witness ==
  /\ Valid /\ cur = "JITDylibLookup" /\ pc = "jdl5"
  /\ loc.DoesNotExist = 0 /\ loc.L1 # 0 /\ loc.L2 = loc.L1

\* C3: after an absolute-symbols unit mapping the interned name to Addr was defined
\* into the main JITDylib, LLVMOrcLLJITLookup of the name returns no error and
\* writes exactly Addr.
C3_AbsoluteSymbolLookup ==
  (Valid /\ cur = "MaterializationUnitCreation") =>
    /\ pc = "muc3" =>
         \A m \in BOOLEAN :
           /\ LLJITLookup(sess, "test", m).err = LLVMErrorSuccess
           /\ LLJITLookup(sess, "test", m).addr = loc.Addr
    /\ pc \in {"muc4", "muc5"} =>
         ~errSeen /\ loc.Addr = FnAddr /\ loc.OutAddr = loc.Addr
    /\ pc = "dtor" => ~errSeen /\ failures = 0

C3_Witness ==
  /\ Valid /\ cur = "MaterializationUnitCreation" /\ pc = "muc4"
  /\ loc.lookedUp /\ ~errSeen /\ loc.OutAddr = FnAddr

\* C4: with the custom generator added to the main JITDylib, the lookup of a name
\* the JITDylib does not define invokes the generator for that name, succeeds,
\* and returns the address the generator defined (that of materializationUnitFn).
C4_GeneratorConsulted ==
  (Valid /\ cur = "DefinitionGenerators") =>
    /\ pc \in {"dg1", "dg2"} => sess.syms[MainHandle]["test"].def = "none"
    /\ pc \in {"dg3", "dtor"} =>
         /\ "test" \in genCalls /\ ~errSeen /\ failures = 0
         /\ loc.OutAddr = FnAddr
         /\ sess.syms[MainHandle]["test"].addr = FnAddr

C4_Witness ==
  /\ Valid /\ cur = "DefinitionGenerators" /\ pc = "dg3"
  /\ genCalls = {"test"} /\ loc.lookedUp /\ loc.OutAddr = FnAddr

\* C5: the symbol of a module added under a resource tracker is looked up with a
\* non-zero address before the tracker is removed, and once the tracker is
\* removed the symbol is gone from the JITDylib: every later lookup of it
\* returns an error.
C5_TrackerRemoval ==
  (Valid /\ cur = "ResourceTrackerDefinitionLifetime") =>
    /\ pc \in {"rt4", "rt5"} => ~errSeen /\ loc.TestFnAddr \in CodeAddrs
    /\ loc.removed =>
         /\ loc.TestFnAddr # 0
         /\ sess.syms[MainHandle]["sum"].def = "none"
         /\ \A m \in BOOLEAN : LLJITLookup(sess, "sum", m).err # LLVMErrorSuccess
    /\ loc.lookedUpAfter => loc.E # LLVMErrorSuccess
    /\ pc \in {"rt8", "rt9", "rt10", "rt11"} => failures = 0

C5_Witness ==
  /\ Valid /\ cur = "ResourceTrackerDefinitionLifetime" /\ pc = "rt7"
  /\ loc.removed /\ loc.lookedUpAfter /\ loc.E # LLVMErrorSuccess
  /\ loc.TestFnAddr \in CodeAddrs

\* The looked-up "sum" has been called on the live JIT.
SumCalled == Valid /\ cur = "ExecutionTest" /\ pc = "ex5"

\* C6 as stated: the looked-up "sum" returns the arithmetic sum a + b of its two
\* 32-bit inputs.
C6_SumIsArithmeticSum ==
  SumCalled => (Fits32(args[1], args[2]) /\ loc.Result = args[1] + args[2])

\* C6, amended: the looked-up "sum" returns a + b reduced modulo 2^32 into the
\* range of int32_t: a + b itself whenever that fits 32 bits (sum(1, 1) = 2),
\* a + b - 2^32 on overflow above, a + b + 2^32 on overflow below.
C6_SumWraps ==
  SumCalled =>
    LET a == args[1]
        b == args[2]
        r == loc.Result IN
    /\ MinInt32 <= r /\ r <= MaxInt32
    /\ Fits32(a, b) => r = a + b
    /\ (~Fits32(a, b) /\ a > 0) => (r < 0 /\ r - MinInt32 = ((a - MaxInt32) - 1) + b)
    /\ (~Fits32(a, b) /\ a < 0) => (r >= 0 /\ (r - MaxInt32) - 1 = ((a + MaxInt32) + 1) + b)
    /\ (args = <<1, 1>>) => r = 2

C6_Witness ==
  SumCalled /\ args = <<MaxInt32, 1>> /\ loc.Result = MinInt32

\* C7: whenever a guarded fallible call returns an error, the test records exactly
\* one failure, extracts and disposes the message exactly once, and executes no
\* later statement of the test body.
C7_ErrorEndsTest ==
  errSeen =>
    /\ failures = 1 /\ msgs = [got |-> 1, freed |-> 1]
    /\ afterErr = 0
    /\ pc \in {"dtor", "done"} \cup (IF jitSet THEN {} ELSE {Entry(cur)})

\* C8: the fixture has created exactly one LLJIT instance when the test body runs,
\* and on every way out of the test case LLVMOrcDisposeLLJIT has been called
\* exactly once, on that instance.
C8_OneJitDisposedOnce ==
  /\ (cur # "none" /\ pc \notin {"idle", "ctor"}) => created = 1
  /\ pc = "done" => (jitSet /\ disposed = <<Jit>> /\ Jit \notin live)

\* C9: every test case starts its body on a freshly created JIT and execution
\* session of its own, whatever ran before it, so that its result does not
\* depend on the other test cases: no test case ends the process, and a test
\* case fails exactly when a fallible call of its own returned an error.
C9_TestsIndependent ==
  /\ (cur # "none" /\ pc = Entry(cur)) =>
       (Valid /\ live = {Jit} /\ sess = FreshSession)
  /\ pc # "crashed"
  /\ pc = "done" => ((failures > 0) <=> errSeen)

\* C10: at the end of every test case each pool entry the test body acquired has
\* been released as often as it was acquired, the two releases of "sum" in
\* ResourceTrackerDefinitionLifetime matching its one intern plus the one
\* reference loading the module left behind; no reference count is ever negative.
C10_PoolBalanced ==
  /\ Valid => \A n \in Names : sess.pool[n].rc >= 0
  /\ pc \in {"dtor", "done"} =>
       \A n \in Names :
         rel[n] = acq[n] + (IF cur = "ResourceTrackerDefinitionLifetime"
                               /\ n = "sum" /\ acq[n] = 1 THEN 1 ELSE 0)
  /\ (Valid /\ pc = "dtor" /\ rel["sum"] = 2) => sess.pool["sum"].rc = 0

Defined == {x \in DylibHandles \X Names : sess.syms[x[1]][x[2]].def # "none"}

\* C13: called with a lookup set of NamesCount names and a JITDylib JD, the stub
\* generator defines for every index one absolute symbol of that name at the
\* address of materializationUnitFn, weak, into JD: exactly NamesCount
\* definitions, none into another JITDylib; and it returns LLVMErrorSuccess.
C13_GeneratorDefinesAll ==
  loc.genCalled =>
    /\ loc.genRet = LLVMErrorSuccess
    /\ \A i \in DOMAIN loc.LookupSet :
         LET n == EntryStr(sess, loc.LookupSet[i]) IN
         /\ n \in Names
         /\ sess.syms[loc.JD][n] =
              [def |-> "abs", addr |-> FnAddr,
               flags |-> LLVMJITSymbolGenericFlagsWeak, rt |-> 0]
    /\ \A x \in Defined :
         /\ x[1] = loc.JD
         /\ \E i \in DOMAIN loc.LookupSet : EntryStr(sess, loc.LookupSet[i]) = x[2]
    /\ Cardinality(Defined) = Len(loc.LookupSet)

C13_Witness ==
  /\ loc.genCalled /\ Len(loc.LookupSet) >= 2 /\ loc.JD # MainHandle
  /\ Cardinality(Defined) = Len(loc.LookupSet)
  /\ \A x \in Defined : x[1] = loc.JD

\* C14: no handle is used or disposed unless LLVMOrcCreateLLJIT produced it: when
\* the constructor's LLVMOrcCreateLLJIT failed, no statement that passes Jit,
\* ExecutionSession or MainDylib to the API has run (the runner is still before
\* the body, or the body left without an API call), and LLVMOrcDisposeLLJIT
\* has not been called.
C14_NoUnsetHandleUse ==
  (cur # "none" /\ pc # "ctor" /\ ~jitSet) =>
    /\ disposed = <<>>
    /\ pc \in {Entry(cur), "ex2", "dtor"}
    /\ \A n \in Names : acq[n] = 0 /\ rel[n] = 0

====
